---- MODULE Spec2Model ----
(***************************************************************************)
(* Fieldwire -> Teams bridge: the poll / transform / deliver pipeline of   *)
(* fieldwire_to_teams.py with modules/auth.py, modules/fetch.py,           *)
(* modules/card.py and modules/send.py.                                    *)
(*                                                                         *)
(* One thread of control.  The upstream REST API and the Teams webhook are *)
(* the environment: what they answer is chosen nondeterministically.       *)
(* Time is counted in ticks of 0.125 s.                                    *)
(***************************************************************************)
EXTENDS Integers, Sequences, FiniteSets, TLC

\* ------------------------------------------------------------- bounds
MaxProjects    == 2   \* workspaces the upstream lists
MaxTasks       == 3   \* updated tasks the upstream holds, over all workspaces
MaxAttachments == 5   \* attachments per task
MaxCycles      == 2   \* pipeline cycles of one run
MaxFaults      == 1   \* failing upstream answers / failing renders injected per run
MaxTime        == 8   \* clock horizon, in ticks
MaxPostTicks   == 1   \* longest duration of one session.post call, in ticks
MaxBatch       == 3   \* longest batch a caller hands to send_batch directly
MaxCalls       == 2   \* calls a caller makes on one TeamsWebhookSender
MaxFilter      == 2   \* longest id filter a caller hands to get_projects directly
MaxAuthCalls   == 4   \* calls a caller makes on one FieldwireAuth
MaxTokenLife   == 2   \* longest life of an issued token, in ticks

\* --------------------------------------------------- program constants
RateLimit  == 2       \* rate_limit = 0.25 s (send.py:15) = 2 ticks
RetryTotal == 3       \* Retry(total=3) (send.py:31)
PhotoLimit == 3       \* attachments[:3] (card.py:42)

StatusForcelist == {429, 500, 502, 503, 504}
\* Retry(...) is built without allowed_methods, so urllib3's default applies:
\* the idempotent verbs only.
AllowedMethods == {"DELETE", "GET", "HEAD", "OPTIONS", "PUT", "TRACE"}

\* None as it appears in f"Bearer {auth.access_token}"
None == "None"
\* the token the regional endpoint issues for the credential
IssuedToken == "jwt"
Bearer(token) == <<"Bearer", token>>

AllIds == <<"p1", "p2", "p3", "p4">>
ProjectIds == {AllIds[i] : i \in 1..MaxProjects}

VARIABLES
  mode,            \* "scheduler" | "dry-run" (sys.argv); or "sender" / "fetch": a
                   \* TeamsWebhookSender / FieldwireFetch driven by its caller directly
  pc,              \* position of the single thread
  cycle,           \* number of process_tasks calls started
  access_token,    \* FieldwireAuth.access_token
  headers,         \* FieldwireFetch.headers["Authorization"]
  project_ids,     \* FieldwireToTeamsIntegration.project_ids
  arg,             \* get_projects: its project_ids argument, [present, ids]
  projects,        \* process_tasks: projects
  pi,              \* index of the project being processed
  tasks,           \* process_tasks: tasks of the current project
  ti,              \* index of the task being processed
  attachments,     \* process_tasks: attachments of the current task
  all_cards,       \* process_tasks: all_cards
  results,         \* send_batch: results
  bi,              \* send_batch: index of the card being sent
  retries,         \* urllib3 Retry.total left for the POST in flight
  last_send_time,  \* TeamsWebhookSender.last_send_time
  now,             \* time.time()
  enforceAuth,     \* upstream: rejects requests that do not bear IssuedToken
  srvProjects,     \* upstream: the project listing
  srvTasks,        \* upstream: updated tasks per listed project
  srvAttachments,  \* upstream: attachments per task
  endpoint,        \* webhook: the ways the endpoint may answer a call in this run
  latency,         \* webhook: the durations a session.post call may take in this run
  webhook,         \* webhook: how the endpoint answers the attempts of the POST in flight
  ret,             \* send_card: the answer that ended session.post, and the return value
  reqs,            \* history: requests TaskSource issued
  faults,          \* history: faults injected so far
  caught,          \* history: the outcome whose exception ended this cycle in
                   \*          process_tasks' except branch, "" when none did
  batches,         \* history: send_batch calls of this cycle
  posted,          \* history: a POST was issued in this cycle
  fetched,         \* history: tasks returned by get_tasks in this cycle
  errs,            \* history: failed fetch requests of this cycle
  lastFetch,       \* history: the last fetch call and the outcome of its request
  abandoned,       \* history: cycles that ended in process_tasks' except branch
  outcomes,        \* history: per send_card call of this batch, the card and the return value
  call,            \* history: when the current send_card was entered and issued its POST
  prev,            \* history: the send_card call that returned last: entry, POST issue,
                   \*          return time, and whether it got an HTTP response
  trace,           \* history: the fetch, render and POST steps of this cycle, in order
  render_outcome,  \* history: how the primary rendering of the last generate_task_card went
  exit_code,       \* exit status of the process, -1 while it runs
  probe,           \* test_webhook: the answer that ended session.post, and the return value
  expires_at,      \* FieldwireAuth.expires_at
  jwt_requests,    \* history: requests get_jwt_token issued
  auth_ret         \* history: the last call on FieldwireAuth and how it ended

orch_but_pc == <<mode, cycle, project_ids, arg, projects, pi, tasks, ti, attachments, all_cards>>
orch  == <<mode, pc, cycle, project_ids, arg, projects, pi, tasks, ti, attachments, all_cards>>
authv == <<access_token, headers>>
sendv == <<results, bi, retries, last_send_time, now, webhook, ret>>
srvv  == <<enforceAuth, srvProjects, srvTasks, srvAttachments, endpoint, latency>>
histv == <<reqs, faults, caught, batches, posted, fetched, errs, lastFetch, abandoned,
           outcomes, call, prev>>
extv  == <<trace, render_outcome, exit_code, probe, expires_at, jwt_requests, auth_ret>>
vars  == <<orch, authv, sendv, srvv, histv, extv>>

\* ------------------------------------------------------------ helpers
Range(s) == {s[i] : i \in 1..Len(s)}
Min(a, b) == IF a < b THEN a ELSE b
Max(a, b) == IF a > b THEN a ELSE b

RECURSIVE SelectSeq2(_, _)
\* [p for p in s if p in keep]
SelectSeq2(s, keep) ==
  IF s = <<>> THEN <<>>
  ELSE IF Head(s) \in keep THEN <<Head(s)>> \o SelectSeq2(Tail(s), keep)
       ELSE SelectSeq2(Tail(s), keep)

\* ---------------------------------------------------- modules/fetch.py
\* FieldwireFetch.__init__: the header is built once, from the token the
\* auth object holds when the client is constructed.
FetchHeaders(auth_access_token) == Bearer(auth_access_token)

\* (a variant that forgets the sentinel)
FilterApplies_NoSentinel(filter) == filter.present /\ filter.ids /= <<>>

\* `if project_ids and project_ids != ['ALL']` -- filter is [present, ids];
\* present = FALSE is the default argument None.
NoFilter == [present |-> FALSE, ids |-> <<>>]
Given(ids) == [present |-> TRUE, ids |-> ids]
FilterApplies(filter) ==
  filter.present /\ filter.ids /= <<>> /\ filter.ids /= <<"ALL">>

\* get_projects, the success path: projects of the listing kept by the filter
FilterProjects(listing, filter) ==
  IF FilterApplies(filter) THEN SelectSeq2(listing, Range(filter.ids))
  ELSE listing

\* (a variant whose except clause re-raises)
FetchReturn_Raising(outcome, body) ==
  IF outcome = "ok" THEN [raised |-> FALSE, value |-> body]
  ELSE [raised |-> TRUE, value |-> <<>>]

\* What a fetch method does with the outcome of its request.
\*   "ok"        2xx with the documented body
\*   "error"     requests.exceptions.RequestException (transport failure, or
\*               raise_for_status on a non-success status): logged, [] returned
\*   "malformed" 2xx whose body is not the documented object: .get / iteration
\*               raises something that is no RequestException, which the
\*               method does not catch
FetchReturn(outcome, body) ==
  CASE outcome = "ok"        -> [raised |-> FALSE, value |-> body]
    [] outcome = "error"     -> [raised |-> FALSE, value |-> <<>>]
    [] outcome = "malformed" -> [raised |-> TRUE,  value |-> <<>>]

\* the upstream's answer to a request bearing `authorization`
Rejects(authorization) == enforceAuth /\ authorization /= Bearer(IssuedToken)
Outcomes(authorization) ==
  IF Rejects(authorization) THEN {"error"}
  ELSE {"ok"} \cup (IF faults < MaxFaults THEN {"error", "malformed"} ELSE {})
Injected(authorization, outcome) ==
  IF outcome /= "ok" /\ ~Rejects(authorization) THEN 1 ELSE 0

\* A JSON value of a task record: a key that is missing, null, or a string
\* (its text a sequence of words, <<>> the empty string); assigned_to is a
\* dict when present and not null.
Absent == [kind |-> "absent", text |-> <<>>]
Null == [kind |-> "null", text |-> <<>>]
Str(words) == [kind |-> "str", text |-> words]
Dict == [kind |-> "dict", text |-> <<>>]
\* dict.get(key, default): the default only when the key is missing
Get(value, default) == IF value.kind = "absent" THEN default ELSE value
\* f"{value}"
Format(value) == IF value.kind = "null" THEN <<"None">> ELSE value.text

Task(id, title, status, assigned_to) ==
  [id |-> id, title |-> title, status |-> status, assigned_to |-> assigned_to]
TasksOf(pid) ==
  [k \in 1..srvTasks[pid] |-> Task(<<pid, k>>, Str(<<"Pour", "slab">>), Str(<<"open">>), Dict)]
AttachmentsOf(task) == [k \in 1..srvAttachments |-> k]

Request(op) == [op |-> op, authorization |-> headers, cached |-> access_token]

\* ------------------------------------------------ fieldwire_to_teams.py
\* where the thread goes when process_tasks (or, for a sender driven directly,
\* send_batch) returns
AfterCycle ==
  CASE mode = "scheduler" -> "idle"
    [] mode = "dry-run"   -> "exit"
    [] OTHER              -> "caller"

\* (a variant that logs the exception and goes on to deliver what it has)
Catch_Deliver == "deliver"

\* process_tasks' `except Exception`: logged, the call returns normally
Catch == AfterCycle

\* the for loops of process_tasks: what follows project p, and what follows
\* task t of project p
NextProject(p, ps) ==
  IF p < Len(ps) THEN [pc |-> "tasks", pi |-> p + 1, ti |-> 0]
  ELSE [pc |-> "deliver", pi |-> p + 1, ti |-> 0]
NextPosition(p, t, ts, ps) ==
  IF t < Len(ts) THEN [pc |-> "attachments", pi |-> p, ti |-> t + 1]
  ELSE NextProject(p, ps)

\* ----------------------------------------------------- modules/card.py
\* (a variant that hands every attachment to the template)
Photos_All(atts) == atts

\* photos = attachments[:3] when attachments is non-empty
Photos(atts) ==
  IF atts /= <<>> THEN SubSeq(atts, 1, Min(Len(atts), PhotoLimit)) ELSE <<>>

\* _get_fallback_card: the first TextBlock is task.get('title', 'Task Update'),
\* the second f"Status: {task.get('status', 'unknown')}"
FallbackCard(task) ==
  [task |-> task.id, photos |-> <<>>, fallback |-> TRUE,
   title |-> Get(task.title, Str(<<"Task", "Update">>)),
   status |-> Str(<<"Status:">> \o Format(Get(task.status, Str(<<"unknown">>))))]

\* what the template engine can do in generate_task_card: get_template finds
\* no card.json.j2, or template.render's output is not JSON, or both work
TemplateOutcomes == {"ok", "no-template", "bad-json"}
\* the try block of generate_task_card completes: the template works and
\* task.get('assigned_to', {}).get(...) is not called on None
Rendered(task, template) == template = "ok" /\ task.assigned_to.kind /= "null"

\* generate_task_card; rendered = FALSE is any exception inside the try
\* (template missing, bad substitution, json.loads failing).  The card of
\* the primary path is known by the arguments handed to template.render.
GenerateTaskCard(task, atts, rendered) ==
  IF rendered
  THEN [task |-> task.id, photos |-> Photos(atts), fallback |-> FALSE,
        title |-> Get(task.title, Str(<<"Untitled", "Task">>)),
        status |-> Get(task.status, Str(<<"unknown">>))]
  ELSE FallbackCard(task)

\* ----------------------------------------------------- modules/send.py
Status(code) == [err |-> "", status |-> code]
Failure(kind) == [err |-> kind, status |-> 0]
NoResponse == Failure("none")
\* what the webhook endpoint can do with one POST attempt
Answers == {Status(200), Status(202), Status(401), Status(429), Status(500),
            Failure("connect"), Failure("read")}
\* the endpoint's behaviour over the attempts of one call: <<a>> answers a to
\* every attempt, <<a, b>> answers a to the first attempt and b to the later ones
Scripts == {<<a>> : a \in Answers} \cup {<<a, Status(200)>> : a \in Answers \ {Status(200)}}
AnswerTo(script, attempt) == script[Min(attempt, Len(script))]

\* urllib3 Retry: is this answer to `method` retried?
\*   status: only for a method in allowed_methods and a status in the forcelist
\*   connection error: always;  read error: only for a method in allowed_methods
IsRetry(method, answer) ==
  CASE answer.err = ""        -> method \in AllowedMethods /\ answer.status \in StatusForcelist
    [] answer.err = "connect" -> TRUE
    [] OTHER                  -> method \in AllowedMethods

\* (a variant that takes every 2xx for success)
CardSent_Any2xx(status_code) == status_code >= 200 /\ status_code < 300

\* send_card's reading of the response: True only for 200
CardSent(status_code) == status_code = 200

\* (a variant that sleeps only when nothing at all has elapsed)
SleepFor_Late(t, last) == IF t - last < 1 THEN RateLimit - (t - last) ELSE 0

\* the sleep of the rate limiter, entered at time t
SleepFor(t, last) == IF t - last < RateLimit THEN RateLimit - (t - last) ELSE 0

\* (a variant that counts the successes only)
Tally_SuccessOnly(res, ok) == IF ok THEN [res EXCEPT !.success = @ + 1] ELSE res

\* send_batch's tally
Tally(res, ok) ==
  IF ok THEN [res EXCEPT !.success = @ + 1] ELSE [res EXCEPT !.failed = @ + 1]

\* the scheduler's sleep between cycles is at least 60 s; any wait of
\* RateLimit or more is the same to the rate limiter
IdleTicks == RateLimit

NoSend == [final |-> NoResponse, ok |-> FALSE]
NoFetch == [op |-> "none", outcome |-> "ok"]
NoCall == [entry |-> 0, post |-> 0]
NoPrev == [entry |-> 0, post |-> 0, done |-> 0, responded |-> FALSE, any |-> FALSE]
\* the process has not exited; expires_at = None
Running == -1
Never == -1
NoHeader == <<>>
\* a step of the cycle: a fetch, a render or a POST, and the project or task
\* it is for (<<project, 0>> for a project, <<"", 0>> for the listing)
Step(ev, id) == [ev |-> ev, id |-> id]
NoAuthCall == [op |-> "none", outcome |-> "none", requested |-> FALSE, raised |-> FALSE,
               header |-> NoHeader]

\* the upstream's data: at most MaxTasks updated tasks over the listed projects
RECURSIVE Sum(_, _)
Sum(f, S) == IF S = {} THEN 0 ELSE LET x == CHOOSE x \in S : TRUE
                                   IN f[x] + Sum(f, S \ {x})

\* -------------------------------------------------------------- Init
Init ==
  /\ mode \in {"scheduler", "dry-run", "test-webhook"}
  /\ pc = CASE mode = "scheduler" -> "idle"
            [] mode = "dry-run" -> "projects"
            [] OTHER -> "probe"
  /\ cycle = 0
  /\ access_token = None
  /\ headers = FetchHeaders(access_token)
  /\ project_ids \in {<<"ALL">>, <<"p2">>}
  /\ arg = NoFilter
  /\ projects = <<>> /\ pi = 0 /\ tasks = <<>> /\ ti = 0
  /\ attachments = <<>> /\ all_cards = <<>>
  /\ results = [success |-> 0, failed |-> 0] /\ bi = 0 /\ retries = 0
  /\ last_send_time = 0
  /\ now = RateLimit
  /\ enforceAuth \in BOOLEAN
  /\ \E n \in 0..MaxProjects : srvProjects = SubSeq(AllIds, 1, n)
  /\ srvTasks \in [Range(srvProjects) -> 0..MaxTasks]
  /\ Sum(srvTasks, Range(srvProjects)) <= MaxTasks
  \* no attachments, fewer than the card takes, or more
  /\ srvAttachments \in {0, PhotoLimit - 1, MaxAttachments}
  \* a --test-webhook run never addresses the upstream: one upstream will do
  /\ mode = "test-webhook" =>
       project_ids = <<"ALL">> /\ enforceAuth /\ srvProjects = <<>> /\ srvAttachments = 0
  /\ endpoint \in IF mode = "test-webhook" THEN {{script} : script \in Scripts}
                  ELSE {{<<Status(200)>>}, {<<Status(429)>>}}
  /\ latency = {0}
  /\ webhook = <<>> /\ ret = NoSend
  /\ reqs = {} /\ faults = 0 /\ caught = "" /\ batches = 0 /\ posted = FALSE
  /\ fetched = 0 /\ errs = 0 /\ lastFetch = NoFetch /\ abandoned = 0
  /\ outcomes = <<>> /\ call = NoCall /\ prev = NoPrev
  /\ trace = <<>> /\ render_outcome = "" /\ exit_code = Running /\ probe = NoSend
  /\ expires_at = Never /\ jwt_requests = 0 /\ auth_ret = NoAuthCall

\* ------------------------------------------------------------ actions
\* start_scheduler's loop: the job comes due and process_tasks is run
RunPending ==
  /\ pc = "idle"
  /\ cycle < MaxCycles
  /\ now + IdleTicks <= MaxTime
  /\ now' = now + IdleTicks
  /\ pc' = "projects"
  /\ UNCHANGED <<orch_but_pc, authv, srvv, histv>>
  /\ UNCHANGED <<results, bi, retries, last_send_time, webhook, ret>>
  /\ UNCHANGED extv

\* process_tasks up to and including get_projects and `if not projects`
GetProjects ==
  /\ pc = "projects"
  /\ cycle < MaxCycles
  /\ \E outcome \in Outcomes(headers) :
       LET r == FetchReturn(outcome, FilterProjects(srvProjects, Given(project_ids)))
       IN /\ faults' = faults + Injected(headers, outcome)
          /\ errs' = IF outcome = "error" THEN 1 ELSE 0
          /\ lastFetch' = [op |-> "get_projects", outcome |-> outcome]
          /\ caught' = IF r.raised THEN outcome ELSE ""
          /\ abandoned' = abandoned + (IF r.raised THEN 1 ELSE 0)
          /\ projects' = r.value
          /\ pc' = IF r.raised THEN Catch
                   ELSE IF r.value = <<>> THEN AfterCycle
                   ELSE "tasks"
          /\ pi' = IF r.raised \/ r.value = <<>> THEN 0 ELSE 1
  /\ cycle' = cycle + 1
  /\ reqs' = reqs \cup {Request("get_projects")}
  /\ tasks' = <<>> /\ ti' = 0 /\ attachments' = <<>> /\ all_cards' = <<>>
  /\ results' = [success |-> 0, failed |-> 0] /\ bi' = 0
  /\ batches' = 0 /\ posted' = FALSE /\ fetched' = 0
  /\ arg' = Given(project_ids)
  /\ outcomes' = <<>>
  /\ UNCHANGED <<mode, project_ids, authv, srvv, call, prev>>
  /\ UNCHANGED <<retries, last_send_time, now, webhook, ret>>
  /\ trace' = <<Step("get_projects", <<"", 0>>)>>
  /\ UNCHANGED <<render_outcome, exit_code, probe, expires_at, jwt_requests, auth_ret>>

\* get_tasks for projects[pi], and the loop control that follows an empty list
GetTasks ==
  /\ pc = "tasks"
  /\ \E outcome \in Outcomes(headers) :
       LET r == FetchReturn(outcome, TasksOf(projects[pi]))
           nxt == IF r.value = <<>> THEN NextProject(pi, projects)
                  ELSE [pc |-> "attachments", pi |-> pi, ti |-> 1]
       IN /\ faults' = faults + Injected(headers, outcome)
          /\ errs' = errs + (IF outcome = "error" THEN 1 ELSE 0)
          /\ lastFetch' = [op |-> "get_tasks", outcome |-> outcome]
          /\ caught' = IF r.raised THEN outcome ELSE ""
          /\ abandoned' = abandoned + (IF r.raised THEN 1 ELSE 0)
          /\ tasks' = r.value
          /\ fetched' = fetched + Len(r.value)
          /\ pc' = IF r.raised THEN Catch ELSE nxt.pc
          /\ pi' = IF r.raised THEN pi ELSE nxt.pi
          /\ ti' = IF r.raised THEN ti ELSE nxt.ti
  /\ reqs' = reqs \cup {Request("get_tasks")}
  /\ attachments' = <<>>
  /\ UNCHANGED <<mode, cycle, project_ids, arg, projects, all_cards>>
  /\ UNCHANGED <<authv, sendv, srvv, batches, posted, outcomes, call, prev>>
  /\ trace' = Append(trace, Step("get_tasks", <<projects[pi], 0>>))
  /\ UNCHANGED <<render_outcome, exit_code, probe, expires_at, jwt_requests, auth_ret>>

\* get_task_attachments for tasks[ti]
GetTaskAttachments ==
  /\ pc = "attachments"
  /\ \E outcome \in Outcomes(headers) :
       LET r == FetchReturn(outcome, AttachmentsOf(tasks[ti]))
       IN /\ faults' = faults + Injected(headers, outcome)
          /\ errs' = errs + (IF outcome = "error" THEN 1 ELSE 0)
          /\ lastFetch' = [op |-> "get_task_attachments", outcome |-> outcome]
          /\ caught' = IF r.raised THEN outcome ELSE ""
          /\ abandoned' = abandoned + (IF r.raised THEN 1 ELSE 0)
          /\ attachments' = r.value
          /\ pc' = IF r.raised THEN Catch ELSE "render"
  /\ reqs' = reqs \cup {Request("get_task_attachments")}
  /\ UNCHANGED <<mode, cycle, project_ids, arg, projects, pi, tasks, ti, all_cards>>
  /\ UNCHANGED <<authv, sendv, srvv, batches, posted, fetched, outcomes, call, prev>>
  /\ trace' = Append(trace, Step("get_task_attachments", tasks[ti].id))
  /\ UNCHANGED <<render_outcome, exit_code, probe, expires_at, jwt_requests, auth_ret>>

\* generate_task_card for tasks[ti], all_cards.append, and the loop control
RenderCard ==
  /\ pc = "render"
  /\ \E template \in {"ok"} \cup (IF faults < MaxFaults THEN {"no-template"} ELSE {}) :
       LET rendered == Rendered(tasks[ti], template)
       IN /\ all_cards' = Append(all_cards, GenerateTaskCard(tasks[ti], attachments, rendered))
          /\ faults' = faults + (IF rendered THEN 0 ELSE 1)
          /\ render_outcome' = template
  /\ LET nxt == NextPosition(pi, ti, tasks, projects)
     IN pc' = nxt.pc /\ pi' = nxt.pi /\ ti' = nxt.ti
  /\ UNCHANGED <<mode, cycle, project_ids, arg, projects, tasks, attachments>>
  /\ UNCHANGED <<authv, sendv, srvv, reqs, caught, batches, posted, fetched, errs,
                 lastFetch, abandoned, outcomes, call, prev>>
  /\ trace' = Append(trace, Step("render", tasks[ti].id))
  /\ UNCHANGED <<exit_code, probe, expires_at, jwt_requests, auth_ret>>

\* (a variant that calls send_batch unconditionally)
ShouldSend_Always(cards) == TRUE

\* `if all_cards:`
ShouldSend(cards) == cards /= <<>>

\* `if all_cards:` send_batch is entered, else "No new tasks to send"
Deliver ==
  /\ pc = "deliver"
  /\ IF ShouldSend(all_cards)
     THEN /\ pc' = IF all_cards = <<>> THEN AfterCycle ELSE "send"
          /\ results' = [success |-> 0, failed |-> 0]
          /\ bi' = 1
          /\ batches' = batches + 1
     ELSE /\ pc' = AfterCycle
          /\ UNCHANGED <<results, bi, batches>>
  /\ UNCHANGED <<orch_but_pc, authv, srvv, retries, last_send_time, now, webhook, ret>>
  /\ UNCHANGED <<reqs, faults, caught, posted, fetched, errs, lastFetch, abandoned,
                 outcomes, call, prev>>
  /\ UNCHANGED extv

\* (a variant that walks the batch from its end)
CardAt_Reversed(cards, i) == cards[Len(cards) + 1 - i]

\* send_batch's `for card in cards`: the card of the i-th iteration
CardAt(cards, i) == cards[i]

\* send_card for all_cards[bi], up to the call of session.post: the rate
\* limiter sleeps, then the POST is issued
SendCard ==
  /\ pc = "send"
  /\ now + SleepFor(now, last_send_time) <= MaxTime
  /\ now' = now + SleepFor(now, last_send_time)
  /\ call' = [entry |-> now, post |-> now + SleepFor(now, last_send_time)]
  /\ webhook' \in endpoint
  /\ retries' = RetryTotal
  /\ posted' = TRUE
  /\ pc' = "post"
  /\ UNCHANGED <<orch_but_pc, authv, srvv, results, bi, last_send_time, ret>>
  /\ UNCHANGED <<reqs, faults, caught, batches, fetched, errs, lastFetch, abandoned,
                 outcomes, prev>>
  /\ trace' = Append(trace, Step("post", CardAt(all_cards, bi).task))
  /\ UNCHANGED <<render_outcome, exit_code, probe, expires_at, jwt_requests, auth_ret>>

\* session.post got an HTTP response back (rather than an exception): the
\* answer is a status that the retry policy does not retry
Responded(method, answer) == answer.err = "" /\ ~IsRetry(method, answer)

\* (a variant that stamps the time in a finally clause)
Stamp_Always(responded, t, last) == t

\* `self.last_send_time = time.time()` follows session.post inside the try:
\* it is reached when session.post returned a response, not when it raised
Stamp(responded, t, last) == IF responded THEN t ELSE last

\* one attempt of session.post answered by the endpoint; when it is the last
\* one, the rest of send_card: last_send_time, and the return value
Post ==
  /\ pc = "post"
  /\ LET answer == AnswerTo(webhook, RetryTotal - retries + 1)
     IN IF IsRetry("POST", answer) /\ retries > 0
        THEN /\ retries' = retries - 1
             /\ UNCHANGED <<pc, last_send_time, now, ret, prev>>
        ELSE \E d \in latency :
               /\ now + d <= MaxTime
               /\ now' = now + d
               /\ last_send_time' = Stamp(Responded("POST", answer), now + d, last_send_time)
               /\ ret' = [final |-> answer,
                          ok |-> Responded("POST", answer) /\ CardSent(answer.status)]
               /\ prev' = [entry |-> call.entry, post |-> call.post, done |-> now + d,
                           responded |-> Responded("POST", answer), any |-> TRUE]
               /\ pc' = "sent"
               /\ UNCHANGED retries
  /\ UNCHANGED <<orch_but_pc, authv, srvv, results, bi, webhook>>
  /\ UNCHANGED <<reqs, faults, caught, batches, posted, fetched, errs, lastFetch,
                 abandoned, outcomes, call>>
  /\ UNCHANGED extv

\* send_batch: the tally of the call that returned, and the loop control;
\* after the last card send_batch and process_tasks return
TallyCard ==
  /\ pc = "sent"
  /\ results' = Tally(results, ret.ok)
  /\ bi' = bi + 1
  /\ pc' = IF bi < Len(all_cards) THEN "send" ELSE AfterCycle
  /\ ret' = NoSend
  /\ webhook' = <<>>
  /\ retries' = 0
  /\ outcomes' = Append(outcomes, [card |-> CardAt(all_cards, bi), ok |-> ret.ok])
  /\ UNCHANGED <<orch_but_pc, authv, srvv, last_send_time, now>>
  /\ UNCHANGED <<reqs, faults, caught, batches, posted, fetched, errs, lastFetch,
                 abandoned, call, prev>>
  /\ UNCHANGED extv

\* test_webhook up to the call of session.post: the probe is POSTed at once
TestWebhook ==
  /\ pc = "probe"
  /\ webhook' \in endpoint
  /\ retries' = RetryTotal
  /\ pc' = "probing"
  /\ UNCHANGED <<orch_but_pc, authv, srvv, histv, extv>>
  /\ UNCHANGED <<results, bi, last_send_time, now, ret>>

\* test_webhook's reading of the response: True only for 200
ProbeOk(status_code) == status_code = 200

\* where test_webhook returns to: integration.test_webhook, or the caller
AfterProbe == IF mode = "test-webhook" THEN "probed" ELSE "caller"

\* one attempt of the probe's session.post answered by the endpoint; when it
\* is the last one, the return value of test_webhook
ProbePost ==
  /\ pc = "probing"
  /\ LET answer == AnswerTo(webhook, RetryTotal - retries + 1)
     IN IF IsRetry("POST", answer) /\ retries > 0
        THEN /\ retries' = retries - 1
             /\ UNCHANGED <<pc, now, probe, webhook>>
        ELSE \E d \in latency :
               /\ now + d <= MaxTime
               /\ now' = now + d
               /\ probe' = [final |-> answer,
                            ok |-> Responded("POST", answer) /\ ProbeOk(answer.status)]
               /\ pc' = AfterProbe
               /\ retries' = 0
               /\ webhook' = <<>>
  /\ UNCHANGED <<orch_but_pc, authv, srvv, histv>>
  /\ UNCHANGED <<results, bi, last_send_time, ret>>
  /\ UNCHANGED <<trace, render_outcome, exit_code, expires_at, jwt_requests, auth_ret>>

\* __main__: exit status 1 when an exception reached `except Exception`,
\* else the script runs off its end
ExitCode(raised) == IF raised THEN 1 ELSE 0

\* integration.test_webhook() logs the result and returns, or process_tasks
\* of the dry run has returned: __main__ ends
MainExit ==
  /\ pc \in {"probed", "exit"}
  /\ exit_code = Running
  /\ exit_code' = ExitCode(FALSE)
  /\ pc' = "exit"
  /\ UNCHANGED <<orch_but_pc, authv, sendv, srvv, histv>>
  /\ UNCHANGED <<trace, render_outcome, probe, expires_at, jwt_requests, auth_ret>>

Next ==
  \/ RunPending
  \/ GetProjects
  \/ GetTasks
  \/ GetTaskAttachments
  \/ RenderCard
  \/ Deliver
  \/ SendCard
  \/ Post
  \/ TallyCard
  \/ TestWebhook
  \/ ProbePost
  \/ MainExit

Spec == Init /\ [][Next]_vars

\* ------------------------------------------- the Deliverer on its own
\* A TeamsWebhookSender after construction, handed batches by a caller; the
\* endpoint may answer every call in any way and take any time up to
\* MaxPostTicks.
Document(i) == [task |-> <<"p1", i>>, photos |-> <<>>, fallback |-> FALSE]

InitSender ==
  /\ mode = "sender"
  /\ pc = "caller"
  /\ cycle = 0
  /\ access_token = None
  /\ headers = FetchHeaders(access_token)
  /\ project_ids = <<"ALL">>
  /\ arg = NoFilter
  /\ projects = <<>> /\ pi = 0 /\ tasks = <<>> /\ ti = 0
  /\ attachments = <<>> /\ all_cards = <<>>
  /\ results = [success |-> 0, failed |-> 0] /\ bi = 0 /\ retries = 0
  /\ last_send_time = 0
  /\ now = RateLimit
  /\ enforceAuth = TRUE
  /\ srvProjects = <<>> /\ srvTasks = <<>> /\ srvAttachments = 0
  /\ endpoint = Scripts
  /\ latency = 0..MaxPostTicks
  /\ webhook = <<>> /\ ret = NoSend
  /\ reqs = {} /\ faults = 0 /\ caught = "" /\ batches = 0 /\ posted = FALSE
  /\ fetched = 0 /\ errs = 0 /\ lastFetch = NoFetch /\ abandoned = 0
  /\ outcomes = <<>> /\ call = NoCall /\ prev = NoPrev
  /\ trace = <<>> /\ render_outcome = "" /\ exit_code = Running /\ probe = NoSend
  /\ expires_at = Never /\ jwt_requests = 0 /\ auth_ret = NoAuthCall

\* the caller waits `gap` ticks and calls send_batch(cards); an empty batch
\* returns at once
CallSendBatch ==
  /\ pc = "caller"
  /\ cycle < MaxCalls
  /\ \E n \in 0..MaxBatch, gap \in 0..RateLimit :
       /\ now + gap <= MaxTime
       /\ now' = now + gap
       /\ all_cards' = [i \in 1..n |-> Document(i)]
       /\ pc' = IF n = 0 THEN AfterCycle ELSE "send"
       /\ bi' = IF n = 0 THEN 0 ELSE 1
  /\ results' = [success |-> 0, failed |-> 0]
  /\ cycle' = cycle + 1
  /\ batches' = batches + 1
  /\ posted' = FALSE
  /\ outcomes' = <<>>
  /\ UNCHANGED <<mode, project_ids, arg, projects, pi, tasks, ti, attachments>>
  /\ UNCHANGED <<authv, srvv, retries, last_send_time, webhook, ret>>
  /\ UNCHANGED <<reqs, faults, caught, fetched, errs, lastFetch, abandoned, call, prev>>
  /\ trace' = <<>>
  /\ UNCHANGED <<render_outcome, exit_code, probe, expires_at, jwt_requests, auth_ret>>

\* the caller waits `gap` ticks and calls test_webhook(): the probe is
\* POSTed at once
CallTestWebhook ==
  /\ pc = "caller"
  /\ cycle < MaxCalls
  /\ \E gap \in 0..1 :
       /\ now + gap <= MaxTime
       /\ now' = now + gap
  /\ webhook' \in endpoint
  /\ retries' = RetryTotal
  /\ cycle' = cycle + 1
  /\ pc' = "probing"
  /\ UNCHANGED <<mode, project_ids, arg, projects, pi, tasks, ti, attachments, all_cards>>
  /\ UNCHANGED <<authv, srvv, histv, extv>>
  /\ UNCHANGED <<results, bi, last_send_time, ret>>

NextSender ==
  \/ CallSendBatch
  \/ SendCard
  \/ Post
  \/ TallyCard

SpecSender == InitSender /\ [][NextSender]_vars

\* the same sender when its caller also calls test_webhook between batches
NextSenderProbe ==
  \/ CallSendBatch
  \/ CallTestWebhook
  \/ ProbePost
  \/ SendCard
  \/ Post
  \/ TallyCard

SpecSenderProbe == InitSender /\ [][NextSenderProbe]_vars

\* ------------------------------------------ get_projects on its own
\* A FieldwireFetch handed any filter by a caller, against an upstream that
\* lists any projects; the request succeeds or fails.
RECURSIVE SeqsUpTo(_, _)
SeqsUpTo(S, n) ==
  IF n = 0 THEN {<<>>}
  ELSE LET shorter == SeqsUpTo(S, n - 1)
       IN shorter \cup {Append(q, x) : q \in shorter, x \in S}
NoRepeat(q) == \A i, j \in 1..Len(q) : i /= j => q[i] /= q[j]

Listings == {q \in SeqsUpTo(ProjectIds, MaxProjects) : NoRepeat(q)}
Filters == {NoFilter} \cup {Given(q) : q \in SeqsUpTo(ProjectIds \cup {"ALL", ""}, MaxFilter)}

InitFilter ==
  /\ mode = "fetch"
  /\ pc = "caller"
  /\ cycle = 0
  /\ access_token = None
  /\ headers = FetchHeaders(access_token)
  /\ project_ids = <<"ALL">>
  /\ arg = NoFilter
  /\ projects = <<>> /\ pi = 0 /\ tasks = <<>> /\ ti = 0
  /\ attachments = <<>> /\ all_cards = <<>>
  /\ results = [success |-> 0, failed |-> 0] /\ bi = 0 /\ retries = 0
  /\ last_send_time = 0
  /\ now = RateLimit
  /\ enforceAuth = FALSE
  /\ srvProjects \in Listings
  /\ srvTasks = <<>> /\ srvAttachments = 0
  /\ endpoint = Scripts
  /\ latency = 0..MaxPostTicks
  /\ webhook = <<>> /\ ret = NoSend
  /\ reqs = {} /\ faults = 0 /\ caught = "" /\ batches = 0 /\ posted = FALSE
  /\ fetched = 0 /\ errs = 0 /\ lastFetch = NoFetch /\ abandoned = 0
  /\ outcomes = <<>> /\ call = NoCall /\ prev = NoPrev
  /\ trace = <<>> /\ render_outcome = "" /\ exit_code = Running /\ probe = NoSend
  /\ expires_at = Never /\ jwt_requests = 0 /\ auth_ret = NoAuthCall

\* the caller calls get_projects(filter); the request succeeds or fails with
\* a RequestException
CallGetProjects ==
  /\ pc = "caller"
  /\ cycle < MaxCalls
  /\ \E filter \in Filters, outcome \in Outcomes(headers) \ {"malformed"} :
       /\ arg' = filter
       /\ projects' = FetchReturn(outcome, FilterProjects(srvProjects, filter)).value
       /\ errs' = IF outcome = "error" THEN 1 ELSE 0
       /\ lastFetch' = [op |-> "get_projects", outcome |-> outcome]
       /\ faults' = faults + Injected(headers, outcome)
  /\ cycle' = cycle + 1
  /\ reqs' = reqs \cup {Request("get_projects")}
  /\ pc' = AfterCycle
  /\ UNCHANGED <<mode, project_ids, pi, tasks, ti, attachments, all_cards>>
  /\ UNCHANGED <<authv, sendv, srvv, caught, batches, posted, fetched, abandoned,
                 outcomes, call, prev>>
  /\ UNCHANGED extv

NextFilter == CallGetProjects

SpecFilter == InitFilter /\ [][NextFilter]_vars

\* ----------------------------------- generate_task_card on its own
\* An AdaptiveCardGenerator handed any task record and attachment list by a
\* caller; the template engine works or fails.
Texts == {Absent, Null, Str(<<>>), Str(<<"Fix", "leak">>)}
TaskRecords ==
  {Task(<<"p1", 1>>, title, status, assigned_to) :
     title \in Texts, status \in Texts, assigned_to \in {Absent, Null, Dict}}
AttachmentLists ==
  {[k \in 1..n |-> k] : n \in 0..MaxAttachments}
    \cup {[k \in 1..n |-> n + 1 - k] : n \in 0..MaxAttachments}

InitCard ==
  /\ mode = "render"
  /\ pc = "caller"
  /\ cycle = 0
  /\ access_token = None
  /\ headers = FetchHeaders(access_token)
  /\ project_ids = <<"ALL">>
  /\ arg = NoFilter
  /\ projects = <<>> /\ pi = 0
  /\ \E task \in TaskRecords : tasks = <<task>>
  /\ ti = 1
  /\ attachments \in AttachmentLists
  /\ all_cards = <<>>
  /\ results = [success |-> 0, failed |-> 0] /\ bi = 0 /\ retries = 0
  /\ last_send_time = 0
  /\ now = RateLimit
  /\ enforceAuth = FALSE
  /\ srvProjects = <<>> /\ srvTasks = <<>> /\ srvAttachments = 0
  /\ endpoint = Scripts
  /\ latency = 0..MaxPostTicks
  /\ webhook = <<>> /\ ret = NoSend
  /\ reqs = {} /\ faults = 0 /\ caught = "" /\ batches = 0 /\ posted = FALSE
  /\ fetched = 0 /\ errs = 0 /\ lastFetch = NoFetch /\ abandoned = 0
  /\ outcomes = <<>> /\ call = NoCall /\ prev = NoPrev
  /\ trace = <<>> /\ render_outcome = "" /\ exit_code = Running /\ probe = NoSend
  /\ expires_at = Never /\ jwt_requests = 0 /\ auth_ret = NoAuthCall

\* the caller calls generate_task_card(tasks[ti], attachments) and keeps the
\* card it returns
CallGenerateTaskCard ==
  /\ pc = "caller"
  /\ cycle < MaxCalls
  /\ \E template \in TemplateOutcomes :
       /\ all_cards' = <<GenerateTaskCard(tasks[ti], attachments, Rendered(tasks[ti], template))>>
       /\ render_outcome' = template
  /\ cycle' = cycle + 1
  /\ pc' = AfterCycle
  /\ UNCHANGED <<mode, project_ids, arg, projects, pi, tasks, ti, attachments>>
  /\ UNCHANGED <<authv, sendv, srvv, histv>>
  /\ UNCHANGED <<trace, exit_code, probe, expires_at, jwt_requests, auth_ret>>

NextCard == CallGenerateTaskCard

SpecCard == InitCard /\ [][NextCard]_vars

\* --------------------------------------------- FieldwireAuth on its own
\* A FieldwireAuth after construction; a caller calls get_auth_headers and
\* get_jwt_token in any order and at any time.  The JWT endpoint answers a
\* request with a token and its expiry, or the request fails.
InitAuth ==
  /\ mode = "auth"
  /\ pc = "caller"
  /\ cycle = 0
  /\ access_token = None
  /\ headers = FetchHeaders(access_token)
  /\ project_ids = <<"ALL">>
  /\ arg = NoFilter
  /\ projects = <<>> /\ pi = 0 /\ tasks = <<>> /\ ti = 0
  /\ attachments = <<>> /\ all_cards = <<>>
  /\ results = [success |-> 0, failed |-> 0] /\ bi = 0 /\ retries = 0
  /\ last_send_time = 0
  /\ now = RateLimit
  /\ enforceAuth = TRUE
  /\ srvProjects = <<>> /\ srvTasks = <<>> /\ srvAttachments = 0
  /\ endpoint = Scripts
  /\ latency = 0..MaxPostTicks
  /\ webhook = <<>> /\ ret = NoSend
  /\ reqs = {} /\ faults = 0 /\ caught = "" /\ batches = 0 /\ posted = FALSE
  /\ fetched = 0 /\ errs = 0 /\ lastFetch = NoFetch /\ abandoned = 0
  /\ outcomes = <<>> /\ call = NoCall /\ prev = NoPrev
  /\ trace = <<>> /\ render_outcome = "" /\ exit_code = Running /\ probe = NoSend
  /\ expires_at = Never /\ jwt_requests = 0 /\ auth_ret = NoAuthCall

\* get_jwt_token: the request is made; on success token and expiry are
\* stored, on a RequestException it is logged and re-raised
GetJwtToken(outcome, life, t) ==
  IF outcome = "ok"
  THEN [raised |-> FALSE, access_token |-> IssuedToken, expires_at |-> t + life]
  ELSE [raised |-> TRUE, access_token |-> access_token, expires_at |-> expires_at]

\* (a variant that also fetches a new token when the cached one has expired)
NeedsToken_OrExpired(token, expires, t) == token = None \/ t >= expires

\* `if not self.access_token`
NeedsToken(token, expires, t) == token = None

\* the caller waits `gap` ticks and calls get_jwt_token()
CallGetJwtToken ==
  /\ pc = "caller"
  /\ cycle < MaxAuthCalls
  /\ \E gap \in 0..1, outcome \in {"ok", "error"}, life \in 1..MaxTokenLife :
       LET r == GetJwtToken(outcome, life, now + gap)
       IN /\ now + gap <= MaxTime
          /\ now' = now + gap
          /\ access_token' = r.access_token
          /\ expires_at' = r.expires_at
          /\ auth_ret' = [op |-> "get_jwt_token", outcome |-> outcome, requested |-> TRUE,
                          raised |-> r.raised, header |-> NoHeader]
  /\ jwt_requests' = jwt_requests + 1
  /\ cycle' = cycle + 1
  /\ UNCHANGED <<mode, pc, project_ids, arg, projects, pi, tasks, ti, attachments, all_cards>>
  /\ UNCHANGED <<headers, srvv, histv, trace, render_outcome, exit_code, probe>>
  /\ UNCHANGED <<results, bi, retries, last_send_time, webhook, ret>>

\* the caller waits `gap` ticks and calls get_auth_headers(): get_jwt_token
\* is called first when no token is cached, and its exception propagates
CallGetAuthHeaders ==
  /\ pc = "caller"
  /\ cycle < MaxAuthCalls
  /\ \E gap \in 0..1, outcome \in {"ok", "error"}, life \in 1..MaxTokenLife :
       /\ now + gap <= MaxTime
       /\ now' = now + gap
       /\ IF NeedsToken(access_token, expires_at, now + gap)
          THEN LET r == GetJwtToken(outcome, life, now + gap)
               IN /\ access_token' = r.access_token
                  /\ expires_at' = r.expires_at
                  /\ jwt_requests' = jwt_requests + 1
                  /\ auth_ret' = [op |-> "get_auth_headers", outcome |-> outcome,
                                  requested |-> TRUE, raised |-> r.raised,
                                  header |-> IF r.raised THEN NoHeader
                                             ELSE Bearer(r.access_token)]
          ELSE /\ UNCHANGED <<access_token, expires_at, jwt_requests>>
               /\ auth_ret' = [op |-> "get_auth_headers", outcome |-> "none",
                               requested |-> FALSE, raised |-> FALSE,
                               header |-> Bearer(access_token)]
  /\ cycle' = cycle + 1
  /\ UNCHANGED <<mode, pc, project_ids, arg, projects, pi, tasks, ti, attachments, all_cards>>
  /\ UNCHANGED <<headers, srvv, histv, trace, render_outcome, exit_code, probe>>
  /\ UNCHANGED <<results, bi, retries, last_send_time, webhook, ret>>

NextAuth ==
  \/ CallGetJwtToken
  \/ CallGetAuthHeaders

SpecAuth == InitAuth /\ [][NextAuth]_vars

\* ================================================================ claims
CycleEnded == pc \in {"idle", "exit"} /\ cycle > 0
BatchReturned == pc = "caller" /\ cycle > 0

\* C1: every request TaskSource has issued (get_projects, get_tasks,
\* get_task_attachments) was made when TokenBroker held a token, and carried
\* that cached token as its bearer credential.
C1_RequestsBearCachedToken ==
  \A r \in reqs : r.cached /= None /\ r.authorization = Bearer(r.cached)

\* the value the last fetch call returned
Returned(op) ==
  CASE op = "get_projects"         -> projects
    [] op = "get_tasks"            -> tasks
    [] op = "get_task_attachments" -> attachments
    [] OTHER                       -> <<>>
FetchPhaseDone ==
  \/ pc \in {"deliver", "send", "post", "sent"}
  \/ CycleEnded /\ caught = "" /\ projects /= <<>>

\* C2: a fetch whose request fails returns the empty sequence and raises
\* nothing; whatever fetches failed, the cycle still asks every selected
\* workspace for its tasks, turns every task returned into a document (also
\* a task whose attachment fetch failed), and attempts delivery of them all.
C2_FetchFailSoft ==
  /\ caught /= "error"
  /\ lastFetch.outcome = "error" => Returned(lastFetch.op) = <<>>
  /\ pc \in {"attachments", "render"} => Len(all_cards) = fetched - Len(tasks) + ti - 1
  /\ FetchPhaseDone => pi = Len(projects) + 1 /\ Len(all_cards) = fetched
  /\ (CycleEnded /\ batches = 1) => results.success + results.failed = Len(all_cards)

\* a cycle in which an attachment fetch failed, the task still got its
\* document, a later fetch succeeded and every document was delivered
C2_Witness ==
  /\ CycleEnded /\ errs >= 1 /\ lastFetch.outcome = "ok"
  /\ batches = 1 /\ Len(all_cards) >= 2 /\ results.success = Len(all_cards)
  /\ srvAttachments > 0
  /\ \E i \in 1..Len(all_cards) : all_cards[i].photos = <<>> /\ ~all_cards[i].fallback

\* C3: when an exception is raised in the fetch/render phase of a cycle,
\* send_batch is not called and nothing is POSTed in that cycle, and
\* process_tasks returns normally: to the scheduler's loop in scheduled mode.
C3_ExceptionAbandonsCycle ==
  caught /= "" =>
    /\ batches = 0 /\ ~posted
    /\ pc \in (IF mode = "scheduler" THEN {"idle", "projects"} ELSE {"exit"})

\* the scheduler ran a second cycle, which delivered, after an abandoned one
C3_Witness ==
  /\ mode = "scheduler" /\ abandoned >= 1 /\ cycle = 2
  /\ CycleEnded /\ caught = "" /\ posted

CountOk(log) == Cardinality({i \in 1..Len(log) : log[i].ok})

\* C4: send_batch calls send_card once per card, in batch order, whatever the
\* earlier calls returned; success counts the calls that returned True and
\* failed those that returned False, and when it returns success + failed = N.
C4_BatchTally ==
  /\ Len(outcomes) = results.success + results.failed
  /\ results.success = CountOk(outcomes)
  /\ results.failed = Len(outcomes) - CountOk(outcomes)
  /\ \A i \in 1..Len(outcomes) : outcomes[i].card = all_cards[i]
  /\ pc \in {"send", "post", "sent"} => bi = Len(outcomes) + 1 /\ bi <= Len(all_cards)
  /\ BatchReturned => Len(outcomes) = Len(all_cards)

\* a batch of three whose first send failed and whose second succeeded
C4_Witness ==
  /\ BatchReturned /\ Len(all_cards) = 3
  /\ ~outcomes[1].ok /\ outcomes[2].ok /\ ~outcomes[3].ok
  /\ results = [success |-> 1, failed |-> 2]

\* C5: send_card returns True exactly when session.post ended with an HTTP
\* response of status 200; any other status and a transport error (a
\* connection error only after the retries are used up) make it return False.
C5_TrueOnlyOn200 ==
  pc = "sent" =>
    /\ ret.ok <=> (ret.final.err = "" /\ ret.final.status = 200)
    /\ ret.final.err = "connect" => retries = 0

\* a call that used up its retries on connection errors and returned False
C5_Witness ==
  pc = "sent" /\ ret.final = Failure("connect") /\ retries = 0 /\ ~ret.ok

\* C6: when the endpoint answers the first POST of a document with 429 and
\* a retry with 200, send_card returns True.
C6_RetryThenSuccess ==
  (pc = "sent" /\ webhook = <<Status(429), Status(200)>>) => ret.ok

\* C7 as stated: two consecutive send_card calls are entered at least
\* RateLimit apart.
C7_EntryToEntry ==
  (pc = "post" /\ prev.any) => call.entry - prev.entry >= RateLimit

\* C7 as amended: every POST is issued at least RateLimit after the last HTTP
\* response an earlier send_card received: after last_send_time, and, when
\* the call before it got a response, RateLimit after that call returned and
\* after that call's POST.
C7_PostAfterLastResponse ==
  pc = "post" =>
    /\ call.post = now
    /\ now - last_send_time >= RateLimit
    /\ (prev.any /\ prev.responded) =>
         /\ call.post - prev.done >= RateLimit
         /\ call.post - prev.post >= RateLimit

\* a call entered less than RateLimit after the one before it, which slept
\* until RateLimit after that one's response
C7_Witness ==
  /\ pc = "post" /\ prev.any /\ prev.responded
  /\ call.entry - prev.entry < RateLimit
  /\ call.post > call.entry /\ call.post - prev.done = RateLimit

\* C8 as stated: when a cycle has ended, send_batch was called once if a
\* document was produced and not at all otherwise, and without documents
\* nothing was POSTed.
C8_BatchIffDocuments ==
  CycleEnded =>
    /\ batches = (IF Len(all_cards) >= 1 THEN 1 ELSE 0)
    /\ Len(all_cards) = 0 => ~posted

\* C8 as amended: send_batch is called at most once per cycle, and once
\* exactly when a document was produced and no exception ended the
\* fetch/render phase; without a send_batch call nothing is POSTed.
C8_BatchIffDocumentsAndNoException ==
  /\ batches <= 1
  /\ posted => batches = 1
  /\ CycleEnded => (batches = 1 <=> (Len(all_cards) >= 1 /\ caught = ""))

\* a cycle that produced a document and was then abandoned without delivery
C8_Witness ==
  CycleEnded /\ Len(all_cards) >= 1 /\ caught /= "" /\ batches = 0 /\ ~posted

\* the updated tasks of the workspaces the filter selects
SelectedTasks ==
  Sum(srvTasks, Range(FilterProjects(srvProjects, Given(project_ids))))

\* C9: with an upstream that fails no request bearing the issued token, a
\* renderer that does not fail and a webhook that answers 200, a cycle ends
\* with one document per updated task of the selected workspaces, each with
\* min(attachments, 3) media references, and the tally {success: tasks,
\* failed: 0}.
C9_EndToEnd ==
  (CycleEnded /\ faults = 0 /\ endpoint = {<<Status(200)>>}) =>
    /\ Len(all_cards) = SelectedTasks
    /\ \A i \in 1..Len(all_cards) :
         Len(all_cards[i].photos) = Min(srvAttachments, PhotoLimit)
    /\ results = [success |-> SelectedTasks, failed |-> 0]

\* r holds exactly the entries of listing whose id is in keep, in listing order
KeptInListingOrder(r, listing, keep) ==
  /\ \A i \in 1..Len(r) : r[i] \in keep
  /\ Len(r) = Cardinality({i \in 1..Len(listing) : listing[i] \in keep})
  /\ \A i \in 1..Len(listing) : listing[i] \in keep => listing[i] \in Range(r)
  /\ \A i, j \in 1..Len(r) :
       i < j => \E a, b \in 1..Len(listing) : a < b /\ listing[a] = r[i] /\ listing[b] = r[j]

\* C10: a successful get_projects returns the whole listing when the filter
\* is absent, empty or ["ALL"], and otherwise exactly the listed projects
\* whose id is in the filter, in the order of the listing.
C10_FilterByMembership ==
  (BatchReturned /\ errs = 0) =>
    IF ~arg.present \/ arg.ids = <<>> \/ arg.ids = <<"ALL">>
    THEN projects = srvProjects
    ELSE KeptInListingOrder(projects, srvProjects, Range(arg.ids))

\* a filter in the opposite order of the listing: the listing's order wins
C10_Witness ==
  /\ BatchReturned /\ errs = 0
  /\ arg = Given(<<"p2", "p1">>) /\ srvProjects = <<"p1", "p2">>
  /\ projects = <<"p1", "p2">>

\* generate_task_card has returned to its caller
CardReturned == mode = "render" /\ cycle > 0
NonEmptyText(value) == value.kind = "str" /\ value.text /= <<>>

C12_FallbackHasTitleAndStatus ==
  CardReturned =>
    LET card == all_cards[1]
    IN /\ ~Rendered(tasks[ti], render_outcome) => card.fallback
       /\ card.fallback => NonEmptyText(card.title) /\ NonEmptyText(card.status)

\* C13: in --test-webhook mode the process sends one probe and exits; its
\* exit status is 0 exactly when the probe ended with an HTTP 200 response
\* (test_webhook returned True), and nonzero whenever the probe failed.
C13_ProbeExitStatus ==
  (mode = "test-webhook" /\ exit_code /= Running) =>
    /\ probe.ok <=> (probe.final.err = "" /\ probe.final.status = 200)
    /\ exit_code = 0 <=> probe.ok

Authenticated == access_token /= None

\* C14: over any sequence of get_auth_headers and get_jwt_token calls,
\* get_auth_headers requests a token exactly when none is cached at the
\* call; a request that succeeds stores the token; a request that fails
\* raises and leaves the cached state as it was; once a token is cached
\* the cache never goes back to empty, and get_auth_headers makes no further
\* request, expired or not, and returns the cached token as bearer header.
C14_TokenCacheOneWay ==
  [][ LET requested == jwt_requests' = jwt_requests + 1
      IN /\ jwt_requests' \in {jwt_requests, jwt_requests + 1}
         /\ auth_ret'.op = "get_auth_headers" => (requested <=> ~Authenticated)
         /\ auth_ret'.op = "get_jwt_token" => requested
         /\ (requested /\ auth_ret'.outcome = "ok") =>
              /\ ~auth_ret'.raised
              /\ access_token' = IssuedToken
         /\ (requested /\ auth_ret'.outcome = "error") =>
              /\ auth_ret'.raised
              /\ access_token' = access_token /\ expires_at' = expires_at
         /\ ~requested => ~auth_ret'.raised /\ access_token' = access_token
         /\ Authenticated => Authenticated'
         /\ (auth_ret'.op = "get_auth_headers" /\ ~auth_ret'.raised) =>
              Authenticated' /\ auth_ret'.header = Bearer(access_token')
    ]_vars

\* after a failed and a successful request the token has expired, and
\* get_auth_headers returned it without a new request
C14_Witness ==
  /\ mode = "auth" /\ Authenticated /\ now >= expires_at
  /\ jwt_requests = 2
  /\ auth_ret.op = "get_auth_headers" /\ ~auth_ret.requested
  /\ auth_ret.header = Bearer(IssuedToken)

\* the steps of one kind, in the order they were taken
StepsOf(ev) == SelectSeq(trace, LAMBDA e : e.ev = ev)
Position(pid) == CHOOSE i \in 1..Len(srvProjects) : srvProjects[i] = pid
\* task a is listed before task b: in an earlier project of the listing, or
\* earlier among the tasks of the same project
ListedBefore(a, b) ==
  \/ Position(a[1]) < Position(b[1])
  \/ a[1] = b[1] /\ a[2] < b[2]

\* C15: in every cycle no fetch or render step follows a POST; the cards are
\* POSTed in the order they were rendered, which is the order of the project
\* listing and, within a project, of its task listing; and every render comes
\* right after the attachment fetch of the same task.
C15_FetchRenderThenDeliverInOrder ==
  /\ \A i, j \in 1..Len(trace) : (i < j /\ trace[i].ev = "post") => trace[j].ev = "post"
  /\ \A i \in 1..Len(trace) :
       trace[i].ev = "render" =>
         i > 1 /\ trace[i - 1] = Step("get_task_attachments", trace[i].id)
  /\ LET renders == StepsOf("render")
         posts == StepsOf("post")
         gets == StepsOf("get_tasks")
     IN /\ Len(posts) <= Len(renders)
        /\ \A i \in 1..Len(posts) : posts[i].id = renders[i].id
        /\ \A i, j \in 1..Len(renders) : i < j => ListedBefore(renders[i].id, renders[j].id)
        /\ \A i, j \in 1..Len(gets) : i < j => ListedBefore(gets[i].id, gets[j].id)
        /\ Len(renders) = Len(all_cards)
        /\ \A i \in 1..Len(renders) : all_cards[i].task = renders[i].id

\* a cycle over two projects that POSTed three cards: two tasks of the
\* first project, then one of the second
C15_Witness ==
  /\ CycleEnded /\ srvProjects = <<"p1", "p2">>
  /\ LET posts == StepsOf("post")
     IN /\ Len(posts) = 3
        /\ posts[1].id = <<"p1", 1>> /\ posts[2].id = <<"p1", 2>> /\ posts[3].id = <<"p2", 1>>

\* a send_card call ends in this step, with or without a response
SendEnds == pc = "post" /\ pc' = "sent"

\* C16: last_send_time changes only in the step in which a send_card's POST
\* returns an HTTP response, and then, whatever the status, to the time of
\* the response; a send_card that ends in a transport error leaves it as it
\* was; no step of test_webhook changes it; it never decreases.
C16_StampOnlyOnResponse ==
  [][ /\ last_send_time' >= last_send_time
      /\ last_send_time' /= last_send_time => SendEnds /\ ret'.final.err = ""
      /\ (SendEnds /\ ret'.final.err = "") => last_send_time' = now'
      /\ (SendEnds /\ ret'.final.err /= "") => last_send_time' = last_send_time
      /\ (pc = "probing" \/ pc' = "probing") => last_send_time' = last_send_time
    ]_vars

\* a send got a response, the next one ended in a connection error later on
\* and left the stamp alone, and so did a probe that then got its 200
C16_Witness ==
  /\ mode = "sender" /\ pc = "caller"
  /\ prev.any /\ ~prev.responded /\ 0 < last_send_time /\ last_send_time < prev.done
  /\ probe.ok /\ last_send_time < now

====
